---- MODULE Spec2Model ----
(***************************************************************************)
(* A model of geddit's application-only OAuth session                      *)
(* (apponlyoauth_session.go): the constructor, the lazy token refresh, the *)
(* low-level getBody primitive and the typed endpoint methods built on it. *)
(*                                                                         *)
(* Time is a natural number; 0 is Go's zero time.Time.  A *http.Client is  *)
(* a natural number: 0 is the nil pointer, k > 0 is the k-th client that   *)
(* OAuthConfig.Client created.  Errors are strings, "nil" is the nil error.*)
(* A URL is a record of path segments and an encoded query; a JSON body is *)
(* a record describing its shape (see Bodies).                             *)
(***************************************************************************)
EXTENDS Naturals, Sequences, FiniteSets, TLC

VARIABLES
    session,      \* the *AppOnlyOAuthSession, or NoSession before construction
    now,          \* time.Now()
    tokenLog,     \* every call of OAuthConfig.Token: who, when, what came back
    clients,      \* how many clients OAuthConfig.Client has created
    last,         \* the inputs, the network trace and the return values of the last call
    loopVarShared,\* the build's range-loop semantics: TRUE before Go 1.22
    pc,           \* ConcSpec: each concurrent caller's position in refreshToken/getBody
    local         \* ConcSpec: each concurrent caller's local variables

vars == <<session, now, tokenLog, clients, last, loopVarShared, pc, local>>

---------------------------------------------------------------------------
(* Bounds of the model. *)

MaxTime == 3        \* the clock runs from 1 to MaxTime
MaxExchanges == 2   \* at most this many calls of OAuthConfig.Token in one behaviour
MaxChildren == 2    \* a children/trophies array holds at most this many elements

(* Record IDs as decoded; 0 is the zero value (no ID in the body). *)
Ids == {0, 1, 2}

---------------------------------------------------------------------------
(* Values. *)

NilErr == "nil"
NilClient == 0
ZeroTime == 0

DefaultUserAgent == "Geddit API Client https://github.com/imheresamir/geddit"
TestUserAgent == "Testing OAuth Bot by u/imheresamir v0.1 see source https://github.com/imheresamir/geddit"
TokenURL == "https://www.reddit.com/api/v1/access_token"
Host == "https://oauth.reddit.com"

NoSession ==
    [Client |-> NilClient, ClientID |-> "", ClientSecret |-> "",
     OAuthConfig |-> [ClientID |-> "", ClientSecret |-> "", TokenURL |-> ""],
     TokenExpiry |-> ZeroTime, UserAgent |-> "", Debug |-> FALSE]

(* JSON bodies, by shape.  t is the top-level value: not JSON at all       *)
(* ("syntax"), null, a number, or an object.  An object may have a "data"  *)
(* member: absent, null, a number or an object.  A data object carries     *)
(* either a record's own scalar fields (id > 0: its "id"; key = "none") or *)
(* one array-valued member named key ("children" or "trophies"), which is  *)
(* absent, a number or an array of elements.  An element is a number or  *)
(* an object whose "data" member is absent, a number or a record with id.  *)
Child(obj, data, id) == [obj |-> obj, data |-> data, id |-> id]

Children ==
    {Child(FALSE, "absent", 0), Child(TRUE, "absent", 0), Child(TRUE, "num", 0)}
        \cup {Child(TRUE, "obj", i) : i \in Ids}

ChildSeqs == UNION {[1..n -> Children] : n \in 0..MaxChildren}

Body(t, data, id, key, lt, elems) ==
    [t |-> t, data |-> data, id |-> id, key |-> key, lt |-> lt, elems |-> elems]

NoBody == Body("none", "absent", 0, "none", "absent", <<>>)

ListKeys == {"children", "trophies"}

Bodies ==
    {Body(t, "absent", 0, "none", "absent", <<>>) : t \in {"syntax", "null", "num"}}
        \cup {Body("obj", d, 0, "none", "absent", <<>>) : d \in {"absent", "null", "num"}}
        \cup {Body("obj", "obj", i, "none", "absent", <<>>) : i \in Ids}
        \cup {Body("obj", "obj", 0, k, "num", <<>>) : k \in ListKeys}
        \cup {Body("obj", "obj", 0, k, "arr", e) : k \in ListKeys, e \in ChildSeqs}

(* A decoded element: a *Submission (possibly nil) or a Trophy value. *)
Item(isNil, id) == [nil |-> isNil, ID |-> id]

(* What json.Unmarshal leaves in the target d. *)
ZeroD == [list |-> <<>>, rec |-> 0, any |-> NoBody]

(* What an endpoint method returns beside its error. *)
NilResult == [isNil |-> TRUE, list |-> <<>>, rec |-> 0]

NoLink == [segs |-> <<>>, query |-> <<>>]

---------------------------------------------------------------------------
(* Inputs. *)

ClientIDs == {"client_id"}
ClientSecrets == {"client_secret"}
UserAgents == {"", TestUserAgent}

(* "%zz" is an identifier holding an invalid percent-escape: url.Parse, and *)
(* so http.NewRequest, rejects any URL it is interpolated into.            *)
BadEscapes == {"%zz"}
Users == {"alice", "%zz"}
Subreddits == {"", "golang"}
SubredditNames == {"golang", "%zz"}
SubmissionIDs == {"abc123"}
Sorts == {"", "hot"}
Params == [limit : {0, 2}, after : {"", "t3_a"}]
NoParams == [limit |-> 0, after |-> ""]

Args(username, listing, sort, params, id) ==
    [username |-> username, listing |-> listing, sort |-> sort, params |-> params,
     id |-> id]

(* What the outside world answers during one call: the token endpoint's    *)
(* answer to OAuthConfig.Token, whether Client.Do fails, the bytes         *)
(* ioutil.ReadAll returns and whether it returns them with an error.       *)
NoTok == [err |-> "none", Expiry |-> ZeroTime]

(* A grant of 0 is a token without expires_in, whose Expiry is the zero    *)
(* time; a grant of d > 0 is a token that expires d ticks after now.       *)
Grants == {0, 1, 2}

TokenOutcomes(t, grants) ==
    {[err |-> "auth", Expiry |-> ZeroTime]}
        \cup {[err |-> NilErr, Expiry |-> IF d = 0 THEN ZeroTime ELSE t + d] : d \in grants}

Env(tok, doErr, body, readErr) ==
    [tok |-> tok, doErr |-> doErr, body |-> body, readErr |-> readErr]

Envs(t, U) ==
    {Env(tok, TRUE, NoBody, FALSE) : tok \in TokenOutcomes(t, U.grants)}
        \cup {Env(tok, FALSE, b, r) :
                 tok \in TokenOutcomes(t, U.grants), b \in U.bodies, r \in U.readErrs}

---------------------------------------------------------------------------
(* The constructor. *)

(* The constructor without its default: an empty user agent is kept. *)
NewAppOnlyOAuthSession_noDefault(clientID, clientSecret, useragent, debug) ==
    [s |-> [Client |-> NilClient,
            ClientID |-> clientID,
            ClientSecret |-> clientSecret,
            OAuthConfig |-> [ClientID |-> clientID, ClientSecret |-> clientSecret,
                             TokenURL |-> TokenURL],
            TokenExpiry |-> ZeroTime,
            UserAgent |-> useragent,
            Debug |-> debug],
     err |-> NilErr]

NewAppOnlyOAuthSession(clientID, clientSecret, useragent, debug) ==
    [s |-> [Client |-> NilClient,
            ClientID |-> clientID,
            ClientSecret |-> clientSecret,
            OAuthConfig |-> [ClientID |-> clientID, ClientSecret |-> clientSecret,
                             TokenURL |-> TokenURL],
            TokenExpiry |-> ZeroTime,
            UserAgent |-> IF useragent # "" THEN useragent ELSE DefaultUserAgent,
            Debug |-> debug],
     err |-> NilErr]

---------------------------------------------------------------------------
(* refreshToken and getBody. *)

(* A comparison that never finds the token still valid. *)
Before_never(t, u) == FALSE

(* time.Time.Before *)
Before(t, u) == t < u

(* a: the session; t: time.Now(); tok: the token endpoint's answer, used   *)
(* only if the exchange happens; fresh: the client OAuthConfig.Client      *)
(* would create.                                                           *)
(* refreshToken without the expiry check: every call exchanges. *)
refreshToken_noCheck(a, t, tok, fresh) ==
    IF tok.err # NilErr
    THEN [a |-> a, err |-> tok.err, exchanged |-> TRUE]
    ELSE [a |-> [a EXCEPT !.TokenExpiry = tok.Expiry, !.Client = fresh],
          err |-> NilErr, exchanged |-> TRUE]

(* refreshToken that replaces the client before it looks at the error. *)
refreshToken_clientFirst(a, t, tok, fresh) ==
    IF Before(t, a.TokenExpiry)
    THEN [a |-> a, err |-> NilErr, exchanged |-> FALSE]
    ELSE IF tok.err # NilErr
    THEN [a |-> [a EXCEPT !.Client = fresh], err |-> tok.err, exchanged |-> TRUE]
    ELSE [a |-> [a EXCEPT !.TokenExpiry = tok.Expiry, !.Client = fresh],
          err |-> NilErr, exchanged |-> TRUE]

refreshToken(a, t, tok, fresh) ==
    IF Before(t, a.TokenExpiry)
    THEN [a |-> a, err |-> NilErr, exchanged |-> FALSE]
    ELSE IF tok.err # NilErr
    THEN [a |-> a, err |-> tok.err, exchanged |-> TRUE]
    ELSE [a |-> [a EXCEPT !.TokenExpiry = tok.Expiry, !.Client = fresh],
          err |-> NilErr, exchanged |-> TRUE]

(* http.NewRequest fails when the link does not parse as a URL. *)
NewRequestErr(link) == \E i \in 1..Len(link.segs) : link.segs[i] \in BadEscapes

(* encoding/json's Unmarshal of one array element into                     *)
(* struct{Data *Submission} (target "children") or struct{Data Trophy}.    *)
(* A number where an object is expected is an UnmarshalTypeError; the      *)
(* element keeps what was decoded so far and decoding goes on.             *)
ChildTypeErr(c) == ~c.obj \/ c.data = "num"

DecodeChild(c, target) ==
    IF ~c.obj \/ c.data = "absent" THEN Item(target = "children", 0)
    ELSE IF c.data = "num" THEN Item(FALSE, 0)
    ELSE Item(FALSE, c.id)

(* json.Unmarshal(body, d) for the four shapes of d the endpoints pass:    *)
(* "children" and "trophies" (Data.<list>[].Data), "record" (Data T) and   *)
(* "any" (interface{}).  Members the target does not name are ignored and  *)
(* members the body lacks leave the zero value, both without error.        *)
Unmarshal(body, target) ==
    IF body.t = "syntax" THEN [err |-> "syntax", d |-> ZeroD]
    ELSE IF target = "any" THEN [err |-> NilErr, d |-> [ZeroD EXCEPT !.any = body]]
    ELSE IF body.t = "null" THEN [err |-> NilErr, d |-> ZeroD]
    ELSE IF body.t = "num" THEN [err |-> "type", d |-> ZeroD]
    ELSE IF body.data \in {"absent", "null"} THEN [err |-> NilErr, d |-> ZeroD]
    ELSE IF body.data = "num" THEN [err |-> "type", d |-> ZeroD]
    ELSE IF target = "record" THEN [err |-> NilErr, d |-> [ZeroD EXCEPT !.rec = body.id]]
    ELSE IF body.key # target \/ body.lt = "absent" THEN [err |-> NilErr, d |-> ZeroD]
    ELSE IF body.lt = "num" THEN [err |-> "type", d |-> ZeroD]
    ELSE [err |-> IF \E i \in 1..Len(body.elems) : ChildTypeErr(body.elems[i])
                  THEN "type" ELSE NilErr,
          d |-> [ZeroD EXCEPT
                    !.list = [i \in 1..Len(body.elems) |-> DecodeChild(body.elems[i], target)]]]

(* The record getBody's caller sees: the session afterwards, the error,    *)
(* the decoded target, and the trace of what the call did on the network.  *)
GetBodyReturn(a, r, err, d, doCalled, read, debugOut) ==
    [a |-> a, err |-> err, d |-> d, refreshErr |-> r.err, exchanged |-> r.exchanged,
     doCalled |-> doCalled, via |-> IF doCalled THEN a.Client ELSE NilClient,
     read |-> read, debugOut |-> debugOut]

(* getBody that returns the refresh error instead of ignoring it. *)
getBody_propagate(a, t, link, target, env, fresh) ==
    LET r == refreshToken(a, t, env.tok, fresh)
        a1 == r.a
        u == Unmarshal(env.body, target)
    IN  IF r.err # NilErr
        THEN GetBodyReturn(a1, r, r.err, ZeroD, FALSE, FALSE, NoBody)
        ELSE IF NewRequestErr(link)
        THEN GetBodyReturn(a1, r, "newrequest", ZeroD, FALSE, FALSE, NoBody)
        ELSE IF a1.Client = NilClient
        THEN GetBodyReturn(a1, r, "noclient", ZeroD, FALSE, FALSE, NoBody)
        ELSE IF env.doErr
        THEN GetBodyReturn(a1, r, "do", ZeroD, TRUE, FALSE, NoBody)
        ELSE GetBodyReturn(a1, r, u.err, u.d, TRUE, TRUE,
                           IF a1.Debug THEN env.body ELSE NoBody)

(* getBody that drops the client when the request fails. *)
getBody_dropClient(a, t, link, target, env, fresh) ==
    LET r == refreshToken(a, t, env.tok, fresh)
        a1 == r.a
        u == Unmarshal(env.body, target)
    IN  IF NewRequestErr(link)
        THEN GetBodyReturn(a1, r, "newrequest", ZeroD, FALSE, FALSE, NoBody)
        ELSE IF a1.Client = NilClient
        THEN GetBodyReturn(a1, r, "noclient", ZeroD, FALSE, FALSE, NoBody)
        ELSE IF env.doErr
        THEN [GetBodyReturn(a1, r, "do", ZeroD, TRUE, FALSE, NoBody)
                 EXCEPT !.a = [a1 EXCEPT !.Client = NilClient]]
        ELSE GetBodyReturn(a1, r, u.err, u.d, TRUE, TRUE,
                           IF a1.Debug THEN env.body ELSE NoBody)

getBody(a, t, link, target, env, fresh) ==
    LET r == refreshToken(a, t, env.tok, fresh)
        a1 == r.a
        u == Unmarshal(env.body, target)
    IN  IF NewRequestErr(link)
        THEN GetBodyReturn(a1, r, "newrequest", ZeroD, FALSE, FALSE, NoBody)
        ELSE IF a1.Client = NilClient
        THEN GetBodyReturn(a1, r, "noclient", ZeroD, FALSE, FALSE, NoBody)
        ELSE IF env.doErr
        THEN GetBodyReturn(a1, r, "do", ZeroD, TRUE, FALSE, NoBody)
        ELSE GetBodyReturn(a1, r, u.err, u.d, TRUE, TRUE,
                           IF a1.Debug THEN env.body ELSE NoBody)

---------------------------------------------------------------------------
(* The query string. *)

(* query.Values(params): one key per field of ListingOptions that is set.  *)
(* ListingOptions is a struct, the one case in which it returns no error.  *)
QueryValues(params) ==
    LET keys == (IF params.limit # 0 THEN {"limit"} ELSE {})
                    \cup (IF params.after # "" THEN {"after"} ELSE {})
    IN  [err |-> NilErr,
         p |-> [k \in keys |-> IF k = "limit" THEN ToString(params.limit) ELSE params.after]]

(* url.Values.Set *)
Set(p, key, value) == [k \in DOMAIN p \cup {key} |-> IF k = key THEN value ELSE p[k]]

(* url.Values.Encode: key=value pairs sorted by key.  The values used here *)
(* hold only unreserved characters, which escaping leaves as they are.     *)
KeyOrder == <<"after", "limit", "sort">>

Encode(p) ==
    LET ks == SelectSeq(KeyOrder, LAMBDA k : k \in DOMAIN p)
    IN  [i \in 1..Len(ks) |-> <<ks[i], p[ks[i]]>>]

Link(segs, query) == [segs |-> segs, query |-> query]

---------------------------------------------------------------------------
(* The endpoint methods.  Each returns the session afterwards, the result, *)
(* the error and the trace of its getBody call (gb).                       *)

(* The trace of a call that returned before getBody. *)
NoGetBody(a) ==
    [a |-> a, err |-> NilErr, d |-> ZeroD, refreshErr |-> "none", exchanged |-> FALSE,
     doCalled |-> FALSE, via |-> NilClient, read |-> FALSE, debugOut |-> NoBody]

Return(a, result, err, link, gb) ==
    [a |-> a, result |-> result, err |-> err, link |-> link, gb |-> gb]

ListResult(list) == [isNil |-> FALSE, list |-> list, rec |-> 0]
RecResult(rec) == [isNil |-> FALSE, list |-> <<>>, rec |-> rec]

(* Listing that returns what was decoded even when getBody failed. *)
Listing_partial(a, t, username, listing, sort, params, env, fresh) ==
    LET q == QueryValues(params)
        p == IF sort # "" THEN Set(q.p, "sort", sort) ELSE q.p
        url == Link(<<Host, "user", username, listing>>, Encode(p))
        gb == getBody(a, t, url, "children", env, fresh)
    IN  IF q.err # NilErr THEN Return(a, NilResult, q.err, NoLink, NoGetBody(a))
        ELSE Return(gb.a, ListResult(gb.d.list), gb.err, url, gb)

Listing(a, t, username, listing, sort, params, env, fresh) ==
    LET q == QueryValues(params)
        p == IF sort # "" THEN Set(q.p, "sort", sort) ELSE q.p
        url == Link(<<Host, "user", username, listing>>, Encode(p))
        gb == getBody(a, t, url, "children", env, fresh)
    IN  IF q.err # NilErr THEN Return(a, NilResult, q.err, NoLink, NoGetBody(a))
        ELSE IF gb.err # NilErr THEN Return(gb.a, NilResult, gb.err, url, gb)
        ELSE Return(gb.a, ListResult(gb.d.list), NilErr, url, gb)

Upvoted(a, t, username, sort, params, env, fresh) ==
    Listing(a, t, username, "upvoted", sort, params, env, fresh)

AboutRedditor(a, t, user, env, fresh) ==
    LET link == Link(<<Host, "user", user, "about">>, <<>>)
        gb == getBody(a, t, link, "record", env, fresh)
    IN  IF gb.err # NilErr THEN Return(gb.a, NilResult, gb.err, link, gb)
        ELSE Return(gb.a, RecResult(gb.d.rec), NilErr, link, gb)

(* The loop appends &trophy.Data, the address of a field of the loop       *)
(* variable.  Where the loop variable is one variable for the whole loop   *)
(* (Go before 1.22) every element ends as a pointer to the last trophy;    *)
(* where it is a new variable per iteration each points to its own.        *)
UserTrophies(a, t, user, env, fresh, shared) ==
    LET url == Link(<<Host, "api", "v1", "user", user, "trophies">>, <<>>)
        gb == getBody(a, t, url, "trophies", env, fresh)
        n == Len(gb.d.list)
        trophies == [i \in 1..n |->
                        Item(FALSE, gb.d.list[IF shared THEN n ELSE i].ID)]
    IN  IF gb.err # NilErr THEN Return(gb.a, NilResult, gb.err, url, gb)
        ELSE Return(gb.a, [isNil |-> n = 0, list |-> trophies, rec |-> 0], NilErr, url, gb)

AboutSubreddit(a, t, name, env, fresh) ==
    LET link == Link(<<Host, "r", name, "about">>, <<>>)
        gb == getBody(a, t, link, "record", env, fresh)
    IN  IF gb.err # NilErr THEN Return(gb.a, NilResult, gb.err, link, gb)
        ELSE Return(gb.a, RecResult(gb.d.rec), NilErr, link, gb)

(* helper.buildComments: the comments of a listing envelope, in order; a   *)
(* value that is no envelope holds none.                                   *)
buildComments(c) ==
    IF c.t = "obj" /\ c.data = "obj" /\ c.key = "children" /\ c.lt = "arr"
    THEN LET real == SelectSeq(c.elems, LAMBDA e : e.obj /\ e.data = "obj")
         IN  [i \in 1..Len(real) |-> Item(FALSE, real[i].id)]
    ELSE <<>>

Comments(a, t, h, sort, params, env, fresh) ==
    LET q == QueryValues(params)
        link == Link(<<Host, "comments", h.ID>>, Encode(q.p))
        gb == getBody(a, t, link, "any", env, fresh)
        comments == buildComments(gb.d.any)
    IN  IF q.err # NilErr THEN Return(a, NilResult, q.err, NoLink, NoGetBody(a))
        ELSE IF gb.err # NilErr THEN Return(gb.a, NilResult, gb.err, link, gb)
        ELSE Return(gb.a, [isNil |-> Len(comments) = 0, list |-> comments, rec |-> 0],
                    NilErr, link, gb)

(* The sort key is formatted into the path as "/<sort>.json". *)
SubredditSubmissions(a, t, subreddit, sort, params, env, fresh) ==
    LET v == QueryValues(params)
        baseUrl == IF subreddit # "" THEN <<Host, "r", subreddit>> ELSE <<Host>>
        redditURL == Link(baseUrl \o <<sort, ".json">>, Encode(v.p))
        gb == getBody(a, t, redditURL, "children", env, fresh)
    IN  IF v.err # NilErr THEN Return(a, NilResult, v.err, NoLink, NoGetBody(a))
        ELSE IF gb.err # NilErr THEN Return(gb.a, NilResult, gb.err, redditURL, gb)
        ELSE Return(gb.a, ListResult(gb.d.list), NilErr, redditURL, gb)

Frontpage(a, t, sort, params, env, fresh) ==
    SubredditSubmissions(a, t, "", sort, params, env, fresh)

---------------------------------------------------------------------------
(* The state machine of one session used by one caller at a time.  An      *)
(* input universe U names the values the constructor and the calls draw    *)
(* their inputs and the environment its answers from.                      *)

Procs == {1, 2}
Listings == {"submitted"}

NoArgs == Args("", "", "", NoParams, "")
NoEnv == Env(NoTok, FALSE, NoBody, FALSE)
NoLocal == [checked |-> 0, seen |-> ZeroTime, tok |-> NoTok]

(* The part of the environment's answers the call consumed. *)
Observed(env, gb) ==
    Env(IF gb.exchanged THEN env.tok ELSE NoTok,
        gb.doCalled /\ env.doErr,
        IF gb.read THEN env.body ELSE NoBody,
        gb.read /\ env.readErr)

InitWith(U) ==
    /\ \E clientID \in ClientIDs, clientSecret \in ClientSecrets,
          useragent \in U.useragents, debug \in U.debugs :
          LET r == NewAppOnlyOAuthSession(clientID, clientSecret, useragent, debug)
          IN  /\ session = r.s
              /\ last = [op |-> "NewAppOnlyOAuthSession",
                         ctor |-> [clientID |-> clientID, clientSecret |-> clientSecret,
                                   useragent |-> useragent, debug |-> debug],
                         at |-> 0, args |-> NoArgs, env |-> NoEnv, pre |-> NoSession,
                         prevRefreshErr |-> "none", result |-> NilResult,
                         err |-> r.err, link |-> NoLink, gb |-> NoGetBody(r.s)]
    /\ now = 1
    /\ tokenLog = <<>>
    /\ clients = 0
    /\ loopVarShared \in U.loopVars
    /\ pc = [p \in Procs |-> "idle"]
    /\ local = [p \in Procs |-> NoLocal]

(* One endpoint call op(args) that returned R under the answers env. *)
Invoke(op, args, env, R) ==
    /\ R.gb.exchanged => Len(tokenLog) < MaxExchanges
    /\ session' = R.a
    /\ tokenLog' = IF R.gb.exchanged
                   THEN Append(tokenLog, [by |-> 0, at |-> now, err |-> env.tok.err,
                                          Expiry |-> env.tok.Expiry])
                   ELSE tokenLog
    /\ clients' = IF R.gb.exchanged /\ env.tok.err = NilErr THEN clients + 1 ELSE clients
    /\ last' = [op |-> op, ctor |-> last.ctor, at |-> now, args |-> args,
                env |-> Observed(env, R.gb),
                pre |-> session, prevRefreshErr |-> last.gb.refreshErr,
                result |-> R.result, err |-> R.err, link |-> R.link, gb |-> R.gb]
    /\ UNCHANGED <<now, loopVarShared, pc, local>>

(* Time passes between calls. *)
Tick ==
    /\ now < MaxTime
    /\ now' = now + 1
    /\ UNCHANGED <<session, tokenLog, clients, last, loopVarShared, pc, local>>

CallListing(U) ==
    \E username \in U.users, listing \in Listings, sort \in U.sorts, params \in U.params,
       env \in Envs(now, U) :
        Invoke("Listing", Args(username, listing, sort, params, ""), env,
               Listing(session, now, username, listing, sort, params, env, clients + 1))

CallUpvoted(U) ==
    \E username \in U.users, sort \in U.sorts, params \in U.params, env \in Envs(now, U) :
        Invoke("Upvoted", Args(username, "", sort, params, ""), env,
               Upvoted(session, now, username, sort, params, env, clients + 1))

CallAboutRedditor(U) ==
    \E user \in U.redditors, env \in Envs(now, U) :
        Invoke("AboutRedditor", Args(user, "", "", NoParams, ""), env,
               AboutRedditor(session, now, user, env, clients + 1))

CallUserTrophies(U) ==
    \E user \in U.users, env \in Envs(now, U) :
        Invoke("UserTrophies", Args(user, "", "", NoParams, ""), env,
               UserTrophies(session, now, user, env, clients + 1, loopVarShared))

CallAboutSubreddit(U) ==
    \E name \in U.names, env \in Envs(now, U) :
        Invoke("AboutSubreddit", Args(name, "", "", NoParams, ""), env,
               AboutSubreddit(session, now, name, env, clients + 1))

CallComments(U) ==
    \E id \in SubmissionIDs, sort \in U.sorts, params \in U.params, env \in Envs(now, U) :
        Invoke("Comments", Args("", "", sort, params, id), env,
               Comments(session, now, [ID |-> id], sort, params, env, clients + 1))

CallSubredditSubmissions(U) ==
    \E subreddit \in U.subreddits, sort \in U.sorts, params \in U.params,
       env \in Envs(now, U) :
        Invoke("SubredditSubmissions", Args(subreddit, "", sort, params, ""), env,
               SubredditSubmissions(session, now, subreddit, sort, params, env,
                                    clients + 1))

CallFrontpage(U) ==
    \E sort \in U.sorts, params \in U.params, env \in Envs(now, U) :
        Invoke("Frontpage", Args("", "", sort, params, ""), env,
               Frontpage(session, now, sort, params, env, clients + 1))

(* The session's life over time: the session of the repository's test     *)
(* (TestMain), every token outcome, the clock, and for each method one     *)
(* well-formed response; AboutRedditor is also called with an identifier   *)
(* that makes the URL unparsable.                                          *)
LifeInputs ==
    [useragents |-> {TestUserAgent}, debugs |-> {FALSE}, loopVars |-> {TRUE},
     users |-> {"alice"}, redditors |-> Users, names |-> {"golang"}, subreddits |-> {"golang"},
     sorts |-> {"hot"}, params |-> {NoParams}, grants |-> Grants,
     bodies |-> {Body("obj", "obj", 0, "children", "arr", <<Child(TRUE, "obj", 1)>>)},
     readErrs |-> {FALSE}]

Init == InitWith(LifeInputs)

Next ==
    \/ Tick
    \/ CallListing(LifeInputs)
    \/ CallUpvoted(LifeInputs)
    \/ CallAboutRedditor(LifeInputs)
    \/ CallUserTrophies(LifeInputs)
    \/ CallAboutSubreddit(LifeInputs)
    \/ CallComments(LifeInputs)
    \/ CallSubredditSubmissions(LifeInputs)
    \/ CallFrontpage(LifeInputs)

Spec == Init /\ [][Next]_vars

(* The first call on a freshly constructed session, over every constructor *)
(* input, every identifier, sort key and ListingOptions value, and every   *)
(* response shape.                                                         *)
AllInputs ==
    [useragents |-> UserAgents, debugs |-> BOOLEAN, loopVars |-> BOOLEAN,
     users |-> Users, redditors |-> Users, names |-> SubredditNames, subreddits |-> Subreddits,
     sorts |-> Sorts, params |-> Params, grants |-> {1},
     bodies |-> Bodies, readErrs |-> BOOLEAN]

EndpointInit == InitWith(AllInputs)

FirstCall == last.op = "NewAppOnlyOAuthSession"

EndpointNext ==
    \/ FirstCall /\ CallListing(AllInputs)
    \/ FirstCall /\ CallUpvoted(AllInputs)
    \/ FirstCall /\ CallAboutRedditor(AllInputs)
    \/ FirstCall /\ CallUserTrophies(AllInputs)
    \/ FirstCall /\ CallAboutSubreddit(AllInputs)
    \/ FirstCall /\ CallComments(AllInputs)
    \/ FirstCall /\ CallSubredditSubmissions(AllInputs)
    \/ FirstCall /\ CallFrontpage(AllInputs)

EndpointSpec == EndpointInit /\ [][EndpointNext]_vars

---------------------------------------------------------------------------
(* One session shared by the callers in Procs without synchronization:     *)
(* each caller runs getBody's refreshToken statement by statement, and the *)
(* statements of different callers interleave.  The request, the response  *)
(* and its decoding touch no field of the session and are left out.        *)

(* Every value a time.Time of the model can hold. *)
ConcGrants == {0, 2}
TimeValues == {ZeroTime} \cup {t + d : t \in 1..MaxTime, d \in ConcGrants \ {0}}

(* getBody is called: refreshToken starts. *)
Begin(p) ==
    /\ pc[p] = "idle"
    /\ pc' = [pc EXCEPT ![p] = "check"]
    /\ UNCHANGED <<session, now, tokenLog, clients, last, loopVarShared, local>>

(* if time.Now().Before(a.TokenExpiry) { return nil }.  The read of        *)
(* a.TokenExpiry is not synchronized with another caller's write of it: a  *)
(* read made while another caller is writing the field may see the old     *)
(* value, the new one, or a mix of the words of both.                      *)
Check(p) ==
    /\ pc[p] = "check"
    /\ \E seen \in IF \E q \in Procs \ {p} : pc[q] = "setExpiry"
                   THEN TimeValues ELSE {session.TokenExpiry} :
          /\ local' = [local EXCEPT ![p] = [checked |-> now, seen |-> seen, tok |-> NoTok]]
          /\ pc' = [pc EXCEPT ![p] = IF Before(now, seen) THEN "useClient" ELSE "token"]
    /\ UNCHANGED <<session, now, tokenLog, clients, last, loopVarShared>>

(* t, err := a.OAuthConfig.Token(a.ctx); if err != nil { return err } *)
Token(p) ==
    /\ pc[p] = "token"
    /\ Len(tokenLog) < MaxExchanges
    /\ \E tok \in TokenOutcomes(now, ConcGrants) :
          /\ tokenLog' = Append(tokenLog, [by |-> p, at |-> now, err |-> tok.err,
                                           Expiry |-> tok.Expiry])
          /\ local' = [local EXCEPT ![p].tok = tok]
          /\ pc' = [pc EXCEPT ![p] = IF tok.err # NilErr THEN "useClient" ELSE "setExpiry"]
    /\ UNCHANGED <<session, now, clients, last, loopVarShared>>

(* a.TokenExpiry = t.Expiry, the last use of t *)
SetExpiry(p) ==
    /\ pc[p] = "setExpiry"
    /\ session' = [session EXCEPT !.TokenExpiry = local[p].tok.Expiry]
    /\ local' = [local EXCEPT ![p].tok = NoTok]
    /\ pc' = [pc EXCEPT ![p] = "setClient"]
    /\ UNCHANGED <<now, tokenLog, clients, last, loopVarShared>>

(* a.Client = a.OAuthConfig.Client(a.ctx) *)
SetClient(p) ==
    /\ pc[p] = "setClient"
    /\ clients' = clients + 1
    /\ session' = [session EXCEPT !.Client = clients + 1]
    /\ pc' = [pc EXCEPT ![p] = "useClient"]
    /\ UNCHANGED <<now, tokenLog, last, loopVarShared, local>>

(* refreshToken has returned; getBody reads a.Client, sends the request    *)
(* through it (or fails for want of one) and returns.                      *)
UseClient(p) ==
    /\ pc[p] = "useClient"
    /\ local' = [local EXCEPT ![p] = NoLocal]
    /\ pc' = [pc EXCEPT ![p] = "idle"]
    /\ UNCHANGED <<session, now, tokenLog, clients, last, loopVarShared>>

ConcNext ==
    \/ Tick
    \/ \E p \in Procs : Begin(p)
    \/ \E p \in Procs : Check(p)
    \/ \E p \in Procs : Token(p)
    \/ \E p \in Procs : SetExpiry(p)
    \/ \E p \in Procs : SetClient(p)
    \/ \E p \in Procs : UseClient(p)

ConcSpec == Init /\ [][ConcNext]_vars

---------------------------------------------------------------------------
(* Properties. *)

IsCall == last.op # "NewAppOnlyOAuthSession"
Succeeded(e) == e.err = NilErr
RefreshFailed == IsCall /\ last.gb.refreshErr \notin {NilErr, "none"}
NeverSucceeded == \A i \in 1..Len(tokenLog) : ~Succeeded(tokenLog[i])

(* C1: right after NewAppOnlyOAuthSession returns, whatever its arguments, *)
(* the error is nil, no token exchange and no request has happened, Client *)
(* is nil, TokenExpiry is the zero time, and UserAgent is the given user   *)
(* agent if that is non-empty and the default identifying string if not.   *)
C1_ConstructorContract ==
    ~IsCall =>
        /\ last.err = NilErr
        /\ tokenLog = <<>> /\ clients = 0 /\ ~last.gb.exchanged /\ ~last.gb.doCalled
        /\ session.Client = NilClient
        /\ session.TokenExpiry = ZeroTime
        /\ last.ctor.useragent # "" => session.UserAgent = last.ctor.useragent
        /\ last.ctor.useragent = "" => session.UserAgent = DefaultUserAgent

C1_Witness ==
    ~IsCall /\ last.ctor.useragent = "" /\ session.UserAgent = DefaultUserAgent

C3_FailedExchangeKeepsState ==
    /\ (IsCall /\ last.gb.exchanged /\ last.env.tok.err # NilErr) =>
          /\ last.gb.refreshErr = last.env.tok.err
          /\ session = last.pre
    /\ (IsCall /\ last.prevRefreshErr \notin {NilErr, "none"}) => last.gb.exchanged

C3_Witness ==
    /\ RefreshFailed /\ last.gb.exchanged /\ last.gb.refreshErr = "auth"
    /\ session.Client # NilClient /\ session.TokenExpiry # ZeroTime
    /\ session = last.pre

(* C4 as stated: a call whose token refresh failed does not return the     *)
(* refresh error; it fails with the "no client" error, and sends no GET,   *)
(* if no exchange has ever succeeded, and sends the GET through the        *)
(* client obtained earlier otherwise.                                      *)
C4_AsStated ==
    RefreshFailed =>
        /\ last.err # last.gb.refreshErr
        /\ NeverSucceeded => (last.err = "noclient" /\ ~last.gb.doCalled)
        /\ ~NeverSucceeded => (last.gb.doCalled /\ last.gb.via = last.pre.Client)

(* C4: a call whose token refresh failed does not return the refresh       *)
(* error.  If the request cannot be constructed it returns that error and  *)
(* sends no GET; otherwise it fails with the "no client" error, and sends  *)
(* no GET, if no exchange has ever succeeded, and sends the GET through    *)
(* the client obtained earlier if one has.                                 *)
C4_RefreshErrorIgnored ==
    RefreshFailed =>
        /\ last.err # last.gb.refreshErr
        /\ NewRequestErr(last.link) => (last.err = "newrequest" /\ ~last.gb.doCalled)
        /\ (~NewRequestErr(last.link) /\ NeverSucceeded) =>
              (last.err = "noclient" /\ ~last.gb.doCalled)
        /\ (~NewRequestErr(last.link) /\ ~NeverSucceeded) =>
              (last.gb.doCalled /\ last.gb.via = last.pre.Client
                  /\ last.pre.Client # NilClient)

C4_Witness ==
    /\ RefreshFailed /\ ~NewRequestErr(last.link)
    /\ ~NeverSucceeded /\ last.gb.doCalled /\ last.gb.via = last.pre.Client

(* C10: Client is non-nil exactly when an exchange has succeeded and never *)
(* reverts to nil; Client and TokenExpiry change only in a call whose      *)
(* exchange succeeded, and then both are written; ClientID, ClientSecret   *)
(* and UserAgent keep the values the constructor gave them.                *)
C10_TokenStateInvariant ==
    /\ (session.Client # NilClient) <=> ~NeverSucceeded
    /\ IsCall =>
          /\ last.pre.Client # NilClient => session.Client # NilClient
          /\ (last.gb.exchanged /\ last.env.tok.err = NilErr) =>
                /\ session.Client \notin {NilClient, last.pre.Client}
                /\ session.TokenExpiry = last.env.tok.Expiry
          /\ ~(last.gb.exchanged /\ last.env.tok.err = NilErr) =>
                /\ session.Client = last.pre.Client
                /\ session.TokenExpiry = last.pre.TokenExpiry
          /\ session.ClientID = last.pre.ClientID
          /\ session.ClientSecret = last.pre.ClientSecret
          /\ session.UserAgent = last.pre.UserAgent
    /\ session.ClientID = last.ctor.clientID
    /\ session.ClientSecret = last.ctor.clientSecret
    /\ session.UserAgent = last.ctor.useragent

C10_Witness ==
    /\ IsCall /\ ~last.gb.exchanged /\ last.err = "do"
    /\ session.Client # NilClient /\ session = last.pre

---------------------------------------------------------------------------
(* Properties of one call, over every response shape. *)

ListTarget ==
    CASE last.op \in {"Listing", "Upvoted", "SubredditSubmissions", "Frontpage"} -> "children"
      [] last.op = "UserTrophies" -> "trophies"
      [] OTHER -> "none"

IsListCall == ListTarget # "none"
TakesSort == last.op \in {"Listing", "Upvoted", "Comments", "SubredditSubmissions", "Frontpage"}
Decoded == IsCall /\ last.gb.read
Body_ == last.env.body

(* The body is an envelope of the shape the method's target expects. *)
IsEnvelope(b, key) ==
    /\ b.t = "obj" /\ b.data = "obj" /\ b.key = key /\ b.lt = "arr"
    /\ \A i \in 1..Len(b.elems) : b.elems[i].obj /\ b.elems[i].data = "obj"

IsRecord(b) == b.t = "obj" /\ b.data = "obj" /\ b.key = "none"

MatchesShape ==
    CASE IsListCall -> IsEnvelope(Body_, ListTarget)
      [] last.op = "Comments" -> IsEnvelope(Body_, "children")
      [] OTHER -> IsRecord(Body_)

(* A member of the body holds a number where the method's target has a     *)
(* struct or a slice.                                                      *)
TypeMismatch ==
    /\ last.op # "Comments"
    /\ \/ Body_.t = "num"
       \/ Body_.t = "obj" /\ Body_.data = "num"
       \/ /\ IsListCall /\ Body_.t = "obj" /\ Body_.data = "obj" /\ Body_.key = ListTarget
          /\ \/ Body_.lt = "num"
             \/ \E i \in 1..Len(Body_.elems) :
                    ~Body_.elems[i].obj \/ Body_.elems[i].data = "num"

C6_TransportErrorsReturned ==
    IsCall =>
        /\ NewRequestErr(last.link) => last.err # NilErr
        /\ last.env.doErr => last.err # NilErr
        /\ last.env.readErr => last.err # NilErr

(* C7: a list method that decoded an envelope of n children returns n      *)
(* elements, the i-th being the record of the i-th child; an empty         *)
(* children array gives an empty result and no error.                      *)
C7_ChildrenInOrder ==
    (Decoded /\ IsListCall /\ IsEnvelope(Body_, ListTarget)) =>
        /\ last.err = NilErr
        /\ Len(last.result.list) = Len(Body_.elems)
        /\ \A i \in 1..Len(Body_.elems) :
              last.result.list[i] = Item(FALSE, Body_.elems[i].id)

(* The sort key is in the URL: as the query's sort parameter or as the     *)
(* path's "<sort>.json".                                                   *)
SortInUrl(link, sort) ==
    \/ \E i \in 1..Len(link.query) : link.query[i] = <<"sort", sort>>
    \/ \E i \in 1..(Len(link.segs) - 1) : link.segs[i] = sort /\ link.segs[i + 1] = ".json"

(* C8: when a method that accepts a sort key is given a non-empty one, the *)
(* key is in the URL of the GET it sends.                                  *)
C8_SortKeyInUrl ==
    (IsCall /\ TakesSort /\ last.gb.doCalled /\ last.args.sort # "") =>
        SortInUrl(last.link, last.args.sort)

---------------------------------------------------------------------------
(* Properties of the shared session. *)

PastCheck(p) == pc[p] \in {"token", "setExpiry", "setClient"}
OkEntries == {i \in 1..Len(tokenLog) : Succeeded(tokenLog[i])}

(* C9: the expiry check is all that guards the exchange: a caller reaches  *)
(* the exchange and the writes only after its own check found the token    *)
(* expired, and nothing looks at the expiry again; every client the        *)
(* session holds comes from a successful exchange.  (C9_Witness is the     *)
(* race: two callers that both passed the check, both exchanged and both   *)
(* wrote TokenExpiry and Client inside one expiry window.)                 *)
C9_CheckThenAct ==
    /\ \A p \in Procs : PastCheck(p) => ~(local[p].checked < local[p].seen)
    /\ clients <= Cardinality(OkEntries)
    /\ session.Client <= clients

C9_Witness ==
    /\ Len(tokenLog) = 2
    /\ Succeeded(tokenLog[1]) /\ Succeeded(tokenLog[2])
    /\ tokenLog[1].by # tokenLog[2].by
    /\ tokenLog[2].at < tokenLog[1].Expiry
    /\ clients = 2 /\ session.Client = 2
    /\ \A p \in Procs : pc[p] = "useClient"

====
